---- MODULE Spec2Model ----
(***************************************************************************)
(* Reachability of c from the pair (a, b) under a += b / b += a.           *)
(*                                                                         *)
(*   canReach            math-solution.ts  (coprime representation,        *)
(*                                          two bounded windows over n)    *)
(*   canReachBruteForce  tree-search.ts    (breadth-first search with a    *)
(*                                          visited set and a step cap)    *)
(*                                                                         *)
(* Both functions are modelled as processes that run on the same input     *)
(* (a, b, c); each loop iteration of the source is one step.  bigint       *)
(* values are modelled by integers; every value that occurs stays far      *)
(* below 2^31, the range of TLC's integers.                                *)
(***************************************************************************)
EXTENDS Integers, Sequences, FiniteSets

VARIABLES
    a, b, c,          \* the three inputs, after BigInt(...)
    maxIterations,    \* canReachBruteForce's fourth parameter
    mpc,              \* canReach: "idle" | "start" | "loop1" | "loop2" | "done"
    n,                \* canReach: the loop variable n of either for-loop
    examined,         \* canReach: number of loop bodies run so far (both loops)
    mres,             \* canReach: "none" | "true" | "false" | "error" (thrown)
    tpc,              \* canReachBruteForce: "idle" | "start" | "loop" | "done"
    queue,            \* canReachBruteForce: the FIFO queue of pairs
    visited,          \* canReachBruteForce: the set of normalized keys
    iterations,       \* canReachBruteForce: the counter `iterations`
    expanded,         \* canReachBruteForce: number of queue.shift() calls so far
    tres,             \* canReachBruteForce: "none" | "true" | "false"
    tret,             \* canReachBruteForce: which return ran:
                      \*   "none" | "base" | "cap" | "found" | "empty"
    pushed,           \* history: every pair put in the queue, in push order
    qdepth,           \* history: for each queue entry, its number of operations
                      \*   from (a, b)
    popped,           \* history: every pair taken by queue.shift(), in order
    pdepth,           \* history: the depth of each pair of popped
    hpc,              \* test.ts: "off" | "next" | "math" | "tree" | "exited"
    corpus,           \* test.ts: the test(...) calls of the script, in order,
                      \*   each <<a, b, c, skipTreeSearch>>
    skip,             \* test.ts: skipTreeSearch of the running test call
    passed,           \* test.ts: the counter passed
    failed,           \* test.ts: the counter failed
    exitCode,         \* test.ts: "none" | "success" | "failure" (process.exit(1))
    log,              \* history: per finished test call, what each function did
    treeCalls,        \* history: number of canReachTree calls made by test
    cap2,             \* a second value of maxIterations for the same input
    tres2             \* the result of canReachBruteForce under cap2

vars == <<a, b, c, maxIterations, mpc, n, examined, mres,
          tpc, queue, visited, iterations, expanded, tres, tret,
          pushed, qdepth, popped, pdepth,
          hpc, corpus, skip, passed, failed, exitCode, log, treeCalls,
          cap2, tres2>>

inputVars == <<a, b, c, maxIterations>>
mathVars  == <<mpc, n, examined, mres>>
histVars  == <<pushed, qdepth, popped, pdepth>>
treeVars  == <<tpc, queue, visited, iterations, expanded, tres, tret, histVars>>
harnessVars == <<hpc, corpus, skip, passed, failed, exitCode, log, treeCalls>>
monoVars  == <<cap2, tres2>>
otherVars == <<harnessVars, monoVars>>

(***************************************************************************)
(* Bounds of the model.                                                    *)
(***************************************************************************)
\* inputs a and b range over -NegVals .. MaxAB
NegVals == 1
MaxAB == 4
\* the target c ranges over -NegVals .. MaxC
MaxC == 10
\* maxIterations ranges over 0 .. MaxIter
MaxIter == 4

(***************************************************************************)
(* math-solution.ts                                                        *)
(***************************************************************************)
\* the literal 10000n that bounds both windows of n
WINDOW == 10000

Abs(x) == IF x < 0 THEN -x ELSE x

\* while (y !== 0n) [x, y] = [y, x % y]; on the absolute values
RECURSIVE gcdLoop(_, _)
gcdLoop(x, y) == IF y = 0 THEN x ELSE gcdLoop(y, x % y)

gcd(x, y) == gcdLoop(Abs(x), Abs(y))

\* if (a <= 0n || b <= 0n || c <= 0n) throw
Invalid(pa, pb, pc) == pa <= 0 \/ pb <= 0 \/ pc <= 0

\* Steps1to5 with step 5 written c <= a + b
Steps1to5Strict(pa, pb, pc) ==
    LET g     == gcd(pa, pb)
        minAB == IF pa < pb THEN pa ELSE pb
        maxAB == IF pa > pb THEN pa ELSE pb
    IN  IF pc = pa \/ pc = pb THEN "true"
        ELSE IF pc < pa /\ pc < pb THEN "false"
        ELSE IF pc % g # 0 THEN "false"
        ELSE IF pc > minAB /\ pc < maxAB THEN "false"
        ELSE IF pc <= pa + pb THEN "false"
        ELSE "search"

\* Steps1to5 with step 2 returning true
Steps1to5BelowTrue(pa, pb, pc) ==
    LET g     == gcd(pa, pb)
        minAB == IF pa < pb THEN pa ELSE pb
        maxAB == IF pa > pb THEN pa ELSE pb
    IN  IF pc = pa \/ pc = pb THEN "true"
        ELSE IF pc < pa /\ pc < pb THEN "true"
        ELSE IF pc % g # 0 THEN "false"
        ELSE IF pc > minAB /\ pc < maxAB THEN "false"
        ELSE IF pc < pa + pb THEN "false"
        ELSE "search"

\* The returns before the search, in the order of the source; "search" when
\* none of them is taken.  Only evaluated on valid (positive) input.
Steps1to5(pa, pb, pc) ==
    LET g     == gcd(pa, pb)
        minAB == IF pa < pb THEN pa ELSE pb
        maxAB == IF pa > pb THEN pa ELSE pb
    IN  IF pc = pa \/ pc = pb THEN "true"
        ELSE IF pc < pa /\ pc < pb THEN "false"
        ELSE IF pc % g # 0 THEN "false"
        ELSE IF pc > minAB /\ pc < maxAB THEN "false"
        ELSE IF pc < pa + pb THEN "false"
        ELSE "search"

\* Precheck with the validation placed after the base case c = a or c = b
PrecheckBaseFirst(pa, pb, pc) ==
    IF pc = pa \/ pc = pb THEN "true"
    ELSE IF Invalid(pa, pb, pc) THEN "error"
    ELSE Steps1to5(pa, pb, pc)

\* The validation first, then the early returns.
Precheck(pa, pb, pc) ==
    IF Invalid(pa, pb, pc) THEN "error" ELSE Steps1to5(pa, pb, pc)

\* bigint x / y for y > 0: the quotient is truncated towards zero
Quot(x, y) == IF x >= 0 THEN x \div y ELSE 0 - ((0 - x) \div y)

\* const maxN = (c - a) / b
maxNOf(pa, pb, pc) == Quot(pc - pa, pb)

\* const iterLimit = maxN < 10000n ? maxN : 10000n
iterLimitOf(pa, pb, pc) ==
    IF maxNOf(pa, pb, pc) < WINDOW THEN maxNOf(pa, pb, pc) ELSE WINDOW

\* const startN = maxN > 10000n ? maxN - 10000n : 1n
startNOf(pa, pb, pc) ==
    IF maxNOf(pa, pb, pc) > WINDOW THEN maxNOf(pa, pb, pc) - WINDOW ELSE 1

\* if (c >= a * b): the second window is searched at all
HighEnd(pa, pb, pc) == pc >= pa * pb

\* WitnessAt without the test gcd(m, n) === 1n
WitnessAtNoGcd(pa, pb, pc, k) ==
    LET remainder == pc - k * pb
    IN  /\ remainder > 0
        /\ remainder % pa = 0
        /\ LET m == remainder \div pa
           IN  m >= 1

\* WitnessAt without the test remainder % a === 0n
WitnessAtInexact(pa, pb, pc, k) ==
    LET remainder == pc - k * pb
    IN  /\ remainder > 0
        /\ LET m == remainder \div pa
           IN  m >= 1 /\ gcd(m, k) = 1

\* The body of either for-loop: does candidate k give a coprime (m, k)?
WitnessAt(pa, pb, pc, k) ==
    LET remainder == pc - k * pb
    IN  /\ remainder > 0
        /\ remainder % pa = 0
        /\ LET m == remainder \div pa
           IN  m >= 1 /\ gcd(m, k) = 1

maxN      == maxNOf(a, b, c)
iterLimit == iterLimitOf(a, b, c)
startN    == startNOf(a, b, c)

MathReturn(r) ==
    /\ mpc' = "done"
    /\ mres' = r

\* canReach up to the first for-loop
MathStart ==
    /\ mpc = "start"
    /\ LET r == Precheck(a, b, c)
       IN  IF r # "search"
           THEN MathReturn(r) /\ UNCHANGED <<n, examined>>
           ELSE /\ mpc' = "loop1"
                /\ n' = 1
                /\ UNCHANGED <<examined, mres>>
    /\ UNCHANGED <<inputVars, treeVars, otherVars>>

\* one iteration of for (let n = 1n; n <= iterLimit; n++)
Loop1Step ==
    /\ mpc = "loop1"
    /\ n <= iterLimit
    /\ examined' = examined + 1
    /\ IF WitnessAt(a, b, c, n)
       THEN MathReturn("true") /\ UNCHANGED n
       ELSE n' = n + 1 /\ UNCHANGED <<mpc, mres>>
    /\ UNCHANGED <<inputVars, treeVars, otherVars>>

\* the first loop ends; if (c >= a * b) the second starts at startN
Loop1Exit ==
    /\ mpc = "loop1"
    /\ n > iterLimit
    /\ IF HighEnd(a, b, c)
       THEN /\ mpc' = "loop2"
            /\ n' = startN
            /\ UNCHANGED mres
       ELSE MathReturn("false") /\ UNCHANGED n
    /\ UNCHANGED <<examined, inputVars, treeVars, otherVars>>

\* one iteration of for (let n = startN; n <= maxN; n++)
Loop2Step ==
    /\ mpc = "loop2"
    /\ n <= maxN
    /\ examined' = examined + 1
    /\ IF WitnessAt(a, b, c, n)
       THEN MathReturn("true") /\ UNCHANGED n
       ELSE n' = n + 1 /\ UNCHANGED <<mpc, mres>>
    /\ UNCHANGED <<inputVars, treeVars, otherVars>>

\* the second loop ends: return false
Loop2Exit ==
    /\ mpc = "loop2"
    /\ n > maxN
    /\ MathReturn("false")
    /\ UNCHANGED <<n, examined, inputVars, treeVars, otherVars>>

MathNext == MathStart \/ Loop1Step \/ Loop1Exit \/ Loop2Step \/ Loop2Exit

(***************************************************************************)
(* tree-search.ts                                                          *)
(***************************************************************************)
\* child1 written [x + x, y]
Child1Doubled(x, y) == <<x + x, y>>

\* const child1 = [x + y, y]
Child1(x, y) == <<x + y, y>>

\* const child2 = [x, x + y]
Child2(x, y) == <<x, x + y>>

\* if (nx === c || ny === c) return true
Found(p, pc) == p[1] = pc \/ p[2] = pc

\* the skip test with both comparisons turned round
DiscardFlipped(p, pc) == p[1] < pc /\ p[2] < pc

\* the skip test written nx > c || ny > c
DiscardEither(p, pc) == p[1] > pc \/ p[2] > pc

\* if (nx > c && ny > c) continue
Discard(p, pc) == p[1] > pc /\ p[2] > pc

\* the key built from the smaller value alone
KeyMinOnly(p) == IF p[1] < p[2] THEN <<p[1], p[1]>> ELSE <<p[2], p[2]>>

\* the key built without ordering the two values: `${nx},${ny}`
KeyOrdered(p) == <<p[1], p[2]>>

\* nx < ny ? `${nx},${ny}` : `${ny},${nx}`.  The decimal rendering of two
\* integers joined by a comma determines both integers, so the key is
\* modelled by the pair (smaller, larger).
Key(p) == IF p[1] < p[2] THEN <<p[1], p[2]>> ELSE <<p[2], p[1]>>

\* The rest of the for-body for one child that does not contain c:
\* skip it, or mark it visited and push it.  s = [q |-> queue, v |-> visited]
Visit(p, s, pc) ==
    IF Discard(p, pc) THEN s
    ELSE IF Key(p) \in s.v THEN s
    ELSE [q |-> Append(s.q, p), v |-> s.v \cup {Key(p)}]

\* BaseCase with the second test written c < a || c < b
BaseCaseEither(pa, pb, pc) ==
    IF pc = pa \/ pc = pb THEN "true"
    ELSE IF pc < pa \/ pc < pb THEN "false"
    ELSE "search"

\* maxIterations: number = 1_000_000
DefaultMaxIterations == 1000000

\* if (c === a || c === b) return true; if (c < a && c < b) return false
BaseCase(pa, pb, pc) ==
    IF pc = pa \/ pc = pb THEN "true"
    ELSE IF pc < pa /\ pc < pb THEN "false"
    ELSE "search"

TreeReturn(r, why) ==
    /\ tpc' = "done"
    /\ tres' = r
    /\ tret' = why

\* canReachBruteForce up to the while-loop
TreeStart ==
    /\ tpc = "start"
    /\ LET r == BaseCase(a, b, c)
       IN  IF r # "search"
           THEN TreeReturn(r, "base")
                /\ UNCHANGED <<queue, visited, iterations, histVars>>
           ELSE /\ queue' = <<(<<a, b>>)>>
                /\ pushed' = <<(<<a, b>>)>>
                /\ qdepth' = <<0>>
                /\ UNCHANGED <<popped, pdepth>>
                /\ visited' = {Key(<<a, b>>)}
                /\ iterations' = 0
                /\ tpc' = "loop"
                /\ UNCHANGED <<tres, tret>>
    /\ UNCHANGED <<expanded, inputVars, mathVars, otherVars>>

\* the cap test written iterations < maxIterations
OverBudgetFlipped(i, cap) == i < cap

\* the cap test written iterations >= maxIterations
OverBudgetEarly(i, cap) == i >= cap

\* iterations++ ; if (iterations > maxIterations) return false
OverBudget(i, cap) == i > cap

\* the dequeue written queue.pop(): the newest entry is taken
ShiftLast(q) == [item |-> q[Len(q)], rest |-> SubSeq(q, 1, Len(q) - 1)]

\* queue.shift(): the front entry and the remaining queue
Shift(q) == [item |-> Head(q), rest |-> Tail(q)]

\* one iteration of while (queue.length > 0)
TreeIter ==
    /\ tpc = "loop"
    /\ Len(queue) > 0
    /\ iterations' = iterations + 1
    /\ IF OverBudget(iterations + 1, maxIterations)
       THEN TreeReturn("false", "cap")
            /\ UNCHANGED <<queue, visited, expanded, histVars>>
       ELSE LET x  == Shift(queue).item[1]
                y  == Shift(queue).item[2]
                s0 == [q |-> Shift(queue).rest, v |-> visited]
                c1 == Child1(x, y)
                c2 == Child2(x, y)
                s1 == Visit(c1, s0, c)
                s2 == Visit(c2, s1, c)
            IN  /\ expanded' = expanded + 1
                /\ IF Found(c1, c)
                   THEN /\ TreeReturn("true", "found")
                        /\ queue' = s0.q /\ visited' = s0.v
                   ELSE IF Found(c2, c)
                   THEN /\ TreeReturn("true", "found")
                        /\ queue' = s1.q /\ visited' = s1.v
                   ELSE /\ queue' = s2.q /\ visited' = s2.v
                        /\ UNCHANGED <<tpc, tres, tret>>
                /\ popped' = Append(popped, Shift(queue).item)
                /\ pdepth' = Append(pdepth, Shift(qdepth).item)
                /\ LET added == SubSeq(queue', Len(queue), Len(queue'))
                   IN  /\ pushed' = pushed \o added
                       /\ qdepth' = Shift(qdepth).rest \o
                              [i \in 1 .. Len(added) |-> Shift(qdepth).item + 1]
    /\ UNCHANGED <<inputVars, mathVars, otherVars>>

\* the while-loop ends with the queue empty: the final return false
TreeExhausted ==
    /\ tpc = "loop"
    /\ Len(queue) = 0
    /\ TreeReturn("false", "empty")
    /\ UNCHANGED <<queue, visited, iterations, expanded, histVars>>
    /\ UNCHANGED <<inputVars, mathVars, otherVars>>

TreeNext == TreeStart \/ TreeIter \/ TreeExhausted

(***************************************************************************)
(* test.ts                                                                 *)
(*                                                                         *)
(* The script is a list of test(a, b, c, skipTreeSearch) calls followed by *)
(* the summary.  test calls canReachTree with three arguments, i.e. with   *)
(* the default maxIterations = 1,000,000, and so does the model.  A search *)
(* started by test stops at the cap only after a million expansions, so    *)
(* the test calls of the model that run the search are on inputs where it  *)
(* ends by a base case or by finding c.  On such inputs the two functions  *)
(* agree: a call in which they differ, such as test(1, 2, 1000001) (true   *)
(* against false at the cap), lies a million iterations away and is not    *)
(* among the behaviours of this model.  canReachBruteForce has no throw    *)
(* and its inputs are integers, so the catch around canReachTree is never  *)
(* entered.                                                                *)
(***************************************************************************)
\* number of test calls already finished = index of the running one - 1
Finished == Len(log)

\* the summary with the test written failed > 1
VerdictOffByOne(f) == IF f > 1 THEN "failure" ELSE "success"

\* if (failed > 0) process.exit(1)
Verdict(f) == IF f > 0 THEN "failure" ELSE "success"

\* if (treeResult === mathResult)
SameResult(t, m) == t = m

\* test(...) is called: canReachMath(a, b, c) starts
TestCall ==
    /\ hpc = "next"
    /\ Finished < Len(corpus)
    /\ LET t == corpus[Finished + 1]
       IN  /\ a' = t[1]
           /\ b' = t[2]
           /\ c' = t[3]
           /\ skip' = t[4]
    /\ hpc' = "math"
    /\ mpc' = "start" /\ n' = 0 /\ examined' = 0 /\ mres' = "none"
    /\ tpc' = "idle" /\ queue' = <<>> /\ visited' = {} /\ iterations' = 0
    /\ expanded' = 0 /\ tres' = "none" /\ tret' = "none"
    /\ pushed' = <<>> /\ qdepth' = <<>> /\ popped' = <<>> /\ pdepth' = <<>>
    /\ UNCHANGED <<maxIterations, corpus, passed, failed, exitCode, log,
                   treeCalls, monoVars>>

\* canReachMath has returned or thrown: count it; on a throw test returns,
\* otherwise canReachTree(a, b, c) starts unless skipTreeSearch
TestMathReturned ==
    /\ hpc = "math"
    /\ mpc = "done"
    /\ IF mres = "error"
       THEN /\ failed' = failed + 1
            /\ log' = Append(log, [math |-> mres, tree |-> "notrun", skip |-> skip])
            /\ hpc' = "next"
            /\ UNCHANGED <<passed, tpc, treeCalls>>
       ELSE /\ passed' = passed + 1
            /\ IF ~skip
               THEN /\ tpc' = "start"
                    /\ treeCalls' = treeCalls + 1
                    /\ hpc' = "tree"
                    /\ UNCHANGED log
               ELSE /\ log' = Append(log, [math |-> mres, tree |-> "notrun",
                                           skip |-> skip])
                    /\ hpc' = "next"
                    /\ UNCHANGED <<tpc, treeCalls>>
            /\ UNCHANGED failed
    /\ UNCHANGED <<inputVars, mathVars, corpus, skip, exitCode, monoVars>>
    /\ UNCHANGED <<queue, visited, iterations, expanded, tres, tret, histVars>>

\* canReachTree has returned: compare with the math result
TestTreeReturned ==
    /\ hpc = "tree"
    /\ tpc = "done"
    /\ IF SameResult(tres, mres)
       THEN passed' = passed + 1 /\ UNCHANGED failed
       ELSE failed' = failed + 1 /\ UNCHANGED passed
    /\ log' = Append(log, [math |-> mres, tree |-> tres, skip |-> skip])
    /\ hpc' = "next"
    /\ UNCHANGED <<inputVars, mathVars, treeVars, corpus, skip, exitCode,
                   treeCalls, monoVars>>

\* after the last test call: the summary and the exit status
Summary ==
    /\ hpc = "next"
    /\ Finished = Len(corpus)
    /\ exitCode' = Verdict(failed)
    /\ hpc' = "exited"
    /\ UNCHANGED <<inputVars, mathVars, treeVars, corpus, skip, passed, failed,
                   log, treeCalls, monoVars>>

TestNext == TestCall \/ TestMathReturned \/ TestTreeReturned \/ Summary

(***************************************************************************)
(* Specifications                                                          *)
(***************************************************************************)
Vals    == (0 - NegVals) .. MaxAB
Targets == (0 - NegVals) .. MaxC

MathInit(pcv) ==
    /\ mpc = pcv
    /\ n = 0
    /\ examined = 0
    /\ mres = "none"

TreeInit(pcv) ==
    /\ tpc = pcv
    /\ queue = <<>>
    /\ visited = {}
    /\ iterations = 0
    /\ expanded = 0
    /\ tres = "none"
    /\ tret = "none"
    /\ pushed = <<>>
    /\ qdepth = <<>>
    /\ popped = <<>>
    /\ pdepth = <<>>

\* test.ts is not running
HarnessOff ==
    /\ hpc = "off"
    /\ corpus = <<>>
    /\ skip = FALSE
    /\ passed = 0
    /\ failed = 0
    /\ exitCode = "none"
    /\ log = <<>>
    /\ treeCalls = 0

\* no second call of canReachBruteForce
MonoOff ==
    /\ cap2 = 0
    /\ tres2 = "none"

\* canReach(a, b, c) and canReachBruteForce(a, b, c, maxIterations) are each
\* called directly, independently of one another, on the same small input.
Init ==
    /\ a \in Vals
    /\ b \in Vals
    /\ c \in Targets
    /\ maxIterations \in 0 .. MaxIter
    /\ MathInit("start")
    /\ TreeInit("start")
    /\ HarnessOff
    /\ MonoOff

Next == MathNext \/ TreeNext

Spec == Init /\ [][Next]_vars

\* Inputs on which the two windows of canReach matter, with the values of
\* maxN = (c - a) / b they give.
WindowCases ==
    { <<10001, 2, 60022>>,   \* maxN = 25010, c >= a*b, the only coprime n is 10009
      <<20011, 3, 50014>>,   \* maxN = 10001, c <  a*b, the only n is 10001
      <<20011, 3, 50011>>,   \* maxN = 10000, the only n is 10000
      <<10007, 1, 30019>>,   \* maxN = 20012, c >= a*b, found at n = maxN
      <<3, 7, 12344>> }      \* maxN = 1763, the last case of test.ts

\* canReach alone, on the small inputs and on the window cases.
InitWindow ==
    /\ \E t \in WindowCases \cup (Vals \X Vals \X Targets) :
          /\ a = t[1]
          /\ b = t[2]
          /\ c = t[3]
    /\ maxIterations = 0
    /\ MathInit("start")
    /\ TreeInit("idle")
    /\ HarnessOff
    /\ MonoOff

NextWindow == MathNext

SpecWindow == InitWindow /\ [][NextWindow]_vars

\* the most test calls in a script of the model
MaxCases == 2

\* the inputs of the test calls of the model: found by the first expansion,
\* below both (test.ts line 100), found by the third expansion, and an
\* input that makes canReach throw
HarnessCases ==
    { <<2, 3, 5>>, <<3, 5, 2>>, <<1, 1, 4>>, <<0, 1, 1>> }

\* inputs tested with skipTreeSearch only: c is unreachable after both loops
\* of canReach, and the search would run to the default cap
MathOnlyCases == { <<2, 3, 10>> }

TestCalls ==
    { <<t[1], t[2], t[3], s>> : t \in HarnessCases, s \in BOOLEAN }
        \cup { <<t[1], t[2], t[3], TRUE>> : t \in MathOnlyCases }

\* the scripts of at most k test calls
RECURSIVE Scripts(_)
Scripts(k) ==
    IF k = 0 THEN { <<>> }
    ELSE Scripts(k - 1) \cup
         { Append(sq, t) : sq \in { q \in Scripts(k - 1) : Len(q) = k - 1 },
                           t \in TestCalls }

\* test.ts before its first test call
InitHarness ==
    /\ corpus \in Scripts(MaxCases)
    /\ maxIterations = DefaultMaxIterations
    /\ a = 0 /\ b = 0 /\ c = 0
    /\ MathInit("idle")
    /\ TreeInit("idle")
    /\ hpc = "next"
    /\ skip = FALSE
    /\ passed = 0
    /\ failed = 0
    /\ exitCode = "none"
    /\ log = <<>>
    /\ treeCalls = 0
    /\ MonoOff

\* test calls canReachTree only after canReachMath returned a boolean, i.e.
\* on positive input; there the queue never runs empty, so the final return
\* of the search (TreeExhausted) takes no part (C12_HarnessVerdict checks it).
NextHarness == TestNext \/ MathNext \/ TreeStart \/ TreeIter

SpecHarness == InitHarness /\ [][NextHarness]_vars

\* Each call runs to completion: the code is synchronous and single-threaded.
LiveSpec == Init /\ [][Next]_vars /\ WF_vars(MathNext) /\ WF_vars(TreeNext)

(***************************************************************************)
(* Reference notions used by the properties                                *)
(***************************************************************************)
Min(x, y) == IF x < y THEN x ELSE y
Max(x, y) == IF x > y THEN x ELSE y

Divides(d, x) == x % d = 0

\* m and k share no divisor above 1 (m, k >= 1)
Coprime(m, k) == \A d \in 2 .. Min(m, k) : ~(Divides(d, m) /\ Divides(d, k))

\* the greatest common divisor of two positive integers, by its definition
GcdOf(x, y) ==
    CHOOSE d \in 1 .. x :
        /\ Divides(d, x) /\ Divides(d, y)
        /\ \A e \in 1 .. x : (Divides(e, x) /\ Divides(e, y)) => e <= d

\* c = m*a + k*b for some m >= 1, k >= 1 with gcd(m, k) = 1 (positive input);
\* m is determined by k, so only k is enumerated.
CoprimeWitness(pa, pb, pc) ==
    \E k \in 1 .. (pc \div pb) :
        LET r == pc - k * pb
        IN  /\ r >= pa
            /\ Divides(pa, r)
            /\ Coprime(r \div pa, k)

Genuine(pa, pb, pc) == pc = pa \/ pc = pb \/ CoprimeWitness(pa, pb, pc)

\* the two operations (x,y) -> (x+y,y) and (x,y) -> (x,x+y)
Succ(p) == { <<p[1] + p[2], p[2]>>, <<p[1], p[1] + p[2]>> }

\* all pairs obtained from the pairs of S by at most k operations
RECURSIVE GenUpTo(_, _)
GenUpTo(S, k) ==
    IF k = 0 THEN S ELSE GenUpTo(S \cup UNION { Succ(p) : p \in S }, k - 1)

\* The pairs obtained from S by operations that keep both values <= bound.
RECURSIVE Closure(_, _)
Closure(S, bound) ==
    LET new == { q \in UNION { Succ(p) : p \in S } :
                    q[1] <= bound /\ q[2] <= bound } \ S
    IN  IF new = {} THEN S ELSE Closure(S \cup new, bound)

\* c is reachable from (a, b), for a, b >= 0: values never decrease, so a
\* pair with a value above c leads to c only if it contains c already, and
\* then its parent contains c too.
Reachable(pa, pb, pc) ==
    \E p \in Closure({<<pa, pb>>}, pc) : p[1] = pc \/ p[2] = pc

\* canReachBruteForce alone, with the default cap, on the positive inputs
\* whose target is reachable.
InitComplete ==
    /\ a \in 1 .. MaxAB
    /\ b \in 1 .. MaxAB
    /\ c \in 1 .. MaxC
    /\ Reachable(a, b, c)
    /\ maxIterations = DefaultMaxIterations
    /\ MathInit("idle")
    /\ TreeInit("start")
    /\ HarnessOff
    /\ MonoOff

\* On these inputs the queue never runs empty; were it to, the search would
\* stay in its loop and C14_Complete would fail.
NextComplete == TreeStart \/ TreeIter

SpecComplete == InitComplete /\ [][NextComplete]_vars /\ WF_vars(NextComplete)

\* canReachBruteForce(a, b, c, maxIterations) has returned and is called
\* again on the same a, b, c with the other cap; the first result and its cap
\* are kept in tres2 and cap2.
SecondCall ==
    /\ tpc = "done"
    /\ tres2 = "none"
    /\ tres2' = tres
    /\ cap2' = maxIterations
    /\ maxIterations' = cap2
    /\ tpc' = "start"
    /\ queue' = <<>>
    /\ visited' = {}
    /\ iterations' = 0
    /\ expanded' = 0
    /\ tres' = "none"
    /\ tret' = "none"
    /\ pushed' = <<>>
    /\ qdepth' = <<>>
    /\ popped' = <<>>
    /\ pdepth' = <<>>
    /\ UNCHANGED <<a, b, c, mathVars, harnessVars>>

\* canReachBruteForce alone, to be called with two caps in either order
InitMono ==
    /\ a \in Vals
    /\ b \in Vals
    /\ c \in Targets
    /\ maxIterations \in 0 .. MaxIter
    /\ cap2 \in 0 .. MaxIter
    /\ tres2 = "none"
    /\ MathInit("idle")
    /\ TreeInit("start")
    /\ HarnessOff

NextMono == TreeNext \/ SecondCall

SpecMono == InitMono /\ [][NextMono]_vars

Positive == a > 0 /\ b > 0 /\ c > 0
MathDone == mpc = "done"
TreeDone == tpc = "done"

(***************************************************************************)
(* Properties                                                              *)
(***************************************************************************)
\* The search returned false at the iteration cap although c is reachable.
CutShort == tret = "cap" /\ Reachable(a, b, c)

\* C1: on positive input whose candidate range fits the window, canReach and
\* canReachBruteForce return the same boolean unless the search was cut
\* short by its iteration cap before it reached c.
C1_Agreement ==
    (MathDone /\ TreeDone /\ Positive /\ maxN <= WINDOW /\ ~CutShort)
        => tres = mres

\* C1 witness: the search found c after at least two expansions and canReach
\* said true as well.
C1_Witness ==
    /\ MathDone /\ TreeDone /\ Positive
    /\ tret = "found" /\ expanded >= 2
    /\ mres = "true"

\* C2: on positive input with maxN <= 10000, canReach returns true exactly
\* when c = a, c = b, or c = m*a + n*b with m, n >= 1 coprime.
C2_CoprimeCharacterization ==
    (MathDone /\ Positive /\ maxN <= WINDOW)
        => (mres = "true" <=> Genuine(a, b, c))

\* C2 witness: the only coprime representation sits at the very last
\* candidate of a full first window, and canReach found it.
C2_Witness ==
    /\ MathDone /\ Positive
    /\ maxN = WINDOW /\ examined = WINDOW
    /\ c # a /\ c # b
    /\ mres = "true"

\* C3: canReach throws exactly when some input is <= 0, also when c = a or
\* c = b; it returns a boolean exactly on positive input.
C3_InvalidInput ==
    MathDone => (mres = "error" <=> (a <= 0 \/ b <= 0 \/ c <= 0))

\* C3 witness: c = a <= 0 and canReach has thrown.
C3_Witness == MathDone /\ c = a /\ a <= 0 /\ mres = "error"

\* some candidate n of 1..maxN that neither for-loop examines
SomeUnexamined ==
    \E k \in (WINDOW + 1) .. maxN : ~HighEnd(a, b, c) \/ k < startN

\* C4: a true answer of canReach always has a genuine witness; a false
\* answer is wrong only when some n of 1..maxN lies outside both windows.
C4_OneSidedError ==
    MathDone =>
        /\ mres = "true" => Genuine(a, b, c)
        /\ (mres = "false" /\ Genuine(a, b, c)) => SomeUnexamined

\* C4 witness: a false negative, canReach said false although c has a
\* coprime representation.
C4_Witness == MathDone /\ mres = "false" /\ Genuine(a, b, c)

\* C5: canReachBruteForce returns true only if c is a or b or occurs in a
\* pair obtained from (a, b) by the two operations (within as many
\* operations as the search has made iterations).
C5_SoundPositive ==
    tres = "true" =>
        \/ c = a
        \/ c = b
        \/ \E p \in GenUpTo({<<a, b>>}, iterations) : p[1] = c \/ p[2] = c

\* C5 witness: the search returned true from the loop after three or more
\* expansions.
C5_Witness == tres = "true" /\ tret = "found" /\ expanded >= 3

\* the state part of C6
C6_BudgetInv ==
    /\ tres \in {"none", "true", "false"}
    /\ TreeDone => tres \in {"true", "false"}
    /\ expanded <= maxIterations
    /\ iterations <= maxIterations + 1
    /\ tret = "cap" => iterations = maxIterations + 1
    /\ iterations > maxIterations =>
          /\ TreeDone /\ tret = "cap" /\ tres = "false"
          /\ expanded = maxIterations
    /\ (TreeDone /\ maxIterations = 0 /\ tret # "base") => tres = "false"

\* C6: for every integer input and every maxIterations >= 0 the search ends
\* with a boolean (it has no error exit); it expands at most maxIterations
\* states, returns false as soon as the count exceeds maxIterations without
\* expanding another state, and with maxIterations = 0 every input past the
\* base cases yields false.
C6_SearchBudget ==
    /\ []C6_BudgetInv
    /\ [][iterations > maxIterations => expanded' = expanded]_vars
    /\ <>TreeDone

\* C6 witness: on a negative input the search expanded maxIterations >= 2
\* states and then stopped at the cap.
C6_Witness ==
    /\ TreeDone /\ tret = "cap" /\ tres = "false"
    /\ a < 0 /\ maxIterations >= 2 /\ expanded = maxIterations

\* C7: the first loop examines n = 1..min(maxN, 10000); the second runs only
\* if c >= a*b and examines the last 10000 candidates of 1..maxN; at most
\* 20000 candidates are examined in all.
C7_TwoWindowPolicy ==
    /\ mpc = "loop1" => (n >= 1 /\ n <= Min(maxN, WINDOW) + 1)
    /\ mpc = "loop2" =>
          /\ HighEnd(a, b, c)
          /\ n >= Max(1, maxN - WINDOW + 1)
          /\ n <= maxN + 1
    /\ examined <= 2 * WINDOW

\* C8: when the search returns false because the queue became empty, the
\* cap was not exceeded, every pair reachable from (a, b) with both values
\* <= c has its key in visited, and c is not reachable from (a, b).
C8_SoundNegative ==
    tret = "empty" =>
        /\ tres = "false"
        /\ iterations <= maxIterations
        /\ a >= 0 /\ b >= 0
        /\ \A p \in Closure({<<a, b>>}, c) :
              <<Min(p[1], p[2]), Max(p[1], p[2])>> \in visited
        /\ ~Reachable(a, b, c)

\* C8 witness: the queue ran empty after at least one expansion.
C8_Witness == tret = "empty" /\ expanded >= 1 /\ tres = "false"

\* C9: on positive input canReach returns false when c < min(a,b), when
\* gcd(a,b) does not divide c, and when min(a,b) < c < max(a,b); a true
\* result implies c is a or b, or c >= a+b and gcd(a,b) divides c.
C9_NecessaryConditions ==
    (MathDone /\ Positive) =>
        /\ c < Min(a, b) => mres = "false"
        /\ ~Divides(GcdOf(a, b), c) => mres = "false"
        /\ (Min(a, b) < c /\ c < Max(a, b)) => mres = "false"
        /\ mres = "true" =>
              \/ c = a
              \/ c = b
              \/ (c >= a + b /\ Divides(GcdOf(a, b), c))

\* C9 witness: c >= a+b is not a multiple of gcd(a,b) and canReach said
\* false.
C9_Witness ==
    /\ MathDone /\ Positive
    /\ c >= a + b /\ ~Divides(GcdOf(a, b), c)
    /\ mres = "false"

\* C10: for positive a, b both functions answer true when c is a or b and
\* false when c is below both; canReachBruteForce returns from its base
\* cases exactly then, without an iteration or an expansion, for every
\* maxIterations.
C10_BaseCases ==
    /\ (MathDone /\ Positive) =>
          /\ (c = a \/ c = b) => mres = "true"
          /\ (c < a /\ c < b) => mres = "false"
    /\ (TreeDone /\ a > 0 /\ b > 0) =>
          /\ (c = a \/ c = b) => tres = "true"
          /\ (c < a /\ c < b) => tres = "false"
          /\ tret = "base" <=> (c = a \/ c = b \/ (c < a /\ c < b))
          /\ tret = "base" => (expanded = 0 /\ iterations = 0)

\* C10 witness: c = b, c # a, maxIterations = 0, and both said true.
C10_Witness ==
    /\ MathDone /\ TreeDone /\ Positive
    /\ c = b /\ c # a /\ maxIterations = 0
    /\ mres = "true" /\ tres = "true" /\ tret = "base"

\* the canonical (min, max) key of a pair
CanonKey(p) == <<Min(p[1], p[2]), Max(p[1], p[2])>>

\* the state part of C11
C11_VisitedInv ==
    /\ \A i \in 1 .. Len(queue) : CanonKey(queue[i]) \in visited
    /\ visited = { CanonKey(pushed[i]) : i \in 1 .. Len(pushed) }
    /\ \A i, j \in 1 .. Len(pushed) :
          i # j => CanonKey(pushed[i]) # CanonKey(pushed[j])
    /\ \A i, j \in 1 .. Len(popped) :
          i # j => CanonKey(popped[i]) # CanonKey(popped[j])

\* C11: during one query the key of every queued pair is in visited,
\* visited is the set of keys of the pairs ever enqueued and only grows, and
\* no two pairs ever enqueued (or expanded) have the same canonical key.
C11_VisitedSet ==
    /\ []C11_VisitedInv
    /\ [][visited \subseteq visited']_vars

\* C11 witness: with a = b the second child of the root has the key of the
\* first and was not enqueued.
C11_Witness ==
    /\ tpc = "loop" /\ a = b /\ a > 0
    /\ expanded = 1 /\ Len(pushed) = 2 /\ Cardinality(visited) = 2

\* the finished test calls in which canReach threw or the two results differ
FailedCalls ==
    { i \in 1 .. Len(log) :
        \/ log[i].math = "error"
        \/ (log[i].tree # "notrun" /\ log[i].tree # log[i].math) }

\* C12: once every test call of the script has run, the exit status is
\* failure exactly when some call had canReach throw or the two results
\* differ; a throwing call counts as one failure and its search is not run;
\* a call with skipTreeSearch never runs the search.  In the behaviours of
\* SpecHarness every failure comes from a throw of canReach: no call with
\* two different results is among them, so that cause is not exercised.
C12_HarnessVerdict ==
    /\ tpc # "idle" => (~skip /\ mres \in {"true", "false"})
    /\ tpc = "loop" => Len(queue) > 0
    /\ \A i \in 1 .. Len(log) :
          /\ (log[i].math = "error" \/ log[i].skip) => log[i].tree = "notrun"
          /\ (log[i].math # "error" /\ ~log[i].skip) =>
                log[i].tree \in {"true", "false"}
    /\ passed + failed =
          Len(log) + Cardinality({ i \in 1 .. Len(log) : log[i].tree # "notrun" })
          + (IF hpc = "tree" THEN 1 ELSE 0)
    /\ treeCalls <= Cardinality({ i \in 1 .. Len(corpus) : ~corpus[i][4] })
    /\ hpc = "exited" =>
          /\ Len(log) = Len(corpus)
          /\ exitCode = "failure" <=> FailedCalls # {}
          /\ exitCode = "success" <=> FailedCalls = {}
          /\ failed = Cardinality(FailedCalls)
          /\ treeCalls = Cardinality({ i \in 1 .. Len(log) :
                                ~log[i].skip /\ log[i].math # "error" })

\* a script of two calls, one in which canReach threw and one in which both
\* functions ran and returned true, ended with the failure status and one
\* failure counted
C12_Witness ==
    /\ hpc = "exited" /\ exitCode = "failure" /\ failed = 1 /\ passed = 2
    /\ \E i, j \in 1 .. Len(log) :
          /\ log[i].math = "error" /\ ~log[i].skip
          /\ log[j].math = "true" /\ log[j].tree = "true"

\* a script without failures ends with the success status, one of its calls
\* having skipped the search
C12_Success ==
    /\ hpc = "exited" /\ exitCode = "success" /\ Len(log) = 2
    /\ \E i \in 1 .. Len(log) : log[i].skip /\ log[i].math = "false"

\* positive a, b and a target that passes both base cases
PastBase == a > 0 /\ b > 0 /\ c > Min(a, b) /\ c # a /\ c # b

\* C13: for positive a, b and c past the base cases the queue is non-empty
\* at every loop head, the final 'queue exhausted' return is never taken,
\* and for unreachable c the search returns false only at the cap, after
\* exactly maxIterations expansions.
C13_FrontierNeverEmpties ==
    PastBase =>
        /\ tpc = "loop" => Len(queue) > 0
        /\ tret # "empty"
        /\ (TreeDone /\ ~Reachable(a, b, c)) =>
              /\ tres = "false" /\ tret = "cap"
              /\ expanded = maxIterations

\* C13 witness: an unreachable c >= a + b; the search stopped at the cap
\* after three or more expansions.
C13_Witness ==
    /\ PastBase /\ TreeDone /\ c >= a + b /\ ~Reachable(a, b, c)
    /\ tret = "cap" /\ maxIterations >= 3 /\ expanded = maxIterations

\* C14: for positive a, b, c with c reachable from (a, b), the search under
\* the default cap of 1,000,000 eventually returns true (from a base case or
\* from the loop): neither the skip of children above c nor the
\* deduplication removes every path to c.
C14_Complete == <>(TreeDone /\ tres = "true" /\ tret \in {"base", "found"})

\* C14 witness: the search returned true after five or more expansions, in
\* which some child was skipped or found already visited.
C14_Witness ==
    /\ TreeDone /\ tres = "true" /\ tret = "found"
    /\ expanded >= 5
    /\ Len(pushed) < 2 * expanded - 1

\* the state part of C15
C15_FifoInv ==
    /\ Len(popped) <= Len(pushed)
    /\ popped = SubSeq(pushed, 1, Len(popped))
    /\ queue = SubSeq(pushed, Len(popped) + 1, Len(pushed))
    /\ \A i \in 1 .. Len(pdepth) - 1 : pdepth[i] <= pdepth[i + 1]
    /\ tret = "found" =>
          LET d == pdepth[Len(pdepth)] + 1
          IN  /\ \E p \in GenUpTo({<<a, b>>}, d) : p[1] = c \/ p[2] = c
              /\ \A p \in GenUpTo({<<a, b>>}, d - 1) : p[1] # c /\ p[2] # c

\* C15: the search dequeues pairs in exactly the order it enqueued them, so
\* the depth of successively dequeued pairs never decreases (each step
\* removes the oldest pair), and when it returns true from the loop no pair
\* of the generation tree of (a, b) at a smaller depth contains c.
C15_BreadthFirst ==
    /\ []C15_FifoInv
    /\ [][popped' # popped =>
            /\ popped' = Append(popped, Head(queue))
            /\ SubSeq(queue', 1, Len(queue) - 1) = Tail(queue)]_vars

\* C15 witness: c was found at depth 3, after pairs of depth 0, 1 and 2 were
\* dequeued in turn.
C15_Witness ==
    /\ tret = "found" /\ Len(pdepth) >= 4
    /\ pdepth[1] = 0 /\ pdepth[Len(pdepth)] = 2

\* C16: when canReachBruteForce has been called on the same a, b, c with two
\* caps, a true under the smaller cap comes with a true under the larger
\* one, whichever call was made first; so raising maxIterations never turns
\* a true into a false.
C16_BudgetMonotone ==
    (tpc = "done" /\ tres2 # "none") =>
        /\ (cap2 <= maxIterations /\ tres2 = "true") => tres = "true"
        /\ (maxIterations <= cap2 /\ tres = "true") => tres2 = "true"

\* C16 witness: the first call found c in the loop under the cap cap2, the
\* second call ran with a strictly larger cap and found it too.
C16_Witness ==
    /\ tpc = "done" /\ tres2 = "true" /\ tres = "true"
    /\ tret = "found" /\ expanded >= 2
    /\ cap2 = expanded /\ cap2 < maxIterations

\* a larger cap can turn a false into a true: the first call stopped at its
\* cap, the second found c
C16_FalseToTrue ==
    /\ tpc = "done" /\ tres2 = "false" /\ tres = "true"
    /\ cap2 < maxIterations

====
